---- MODULE Spec2Model ----
(***************************************************************************)
(* vespa-runserver (src/vespalog/src/logger/runserver.cpp): a single-child *)
(* process supervisor with a locked pid file and a stop mode.              *)
(*                                                                         *)
(* Three specifications share this module, one per part of main():         *)
(*   SpecStop  main() in stop mode (-S), lines 353-397                     *)
(*   SpecSup   the detached supervisor: main() lines 440-463, loop() and   *)
(*             the signal handler termsig()                                *)
(*   SpecLock  several start-mode invocations racing on one pid-file path  *)
(* Each specification moves its own variables and leaves the others at the *)
(* values its Init gives them.                                             *)
(***************************************************************************)
EXTENDS Integers, Sequences, FiniteSets, TLC

(***************************************************************************)
(* Signal numbers (Linux) and the numbers written in the source.           *)
(***************************************************************************)
SIGINT == 2
SIGKILL == 9
SIGSEGV == 11
SIGTERM == 15
SIGSTOP == 19

\* fgets(buf, 100, pf): the size of readPid's buffer
BufSize == 100
\* for (int cnt(0); cnt < 1800; cnt++)
PollLimit == 1800
\* (cnt > 300) && (cnt % 100 == 0)
ResendAfter == 300
ResendEvery == 100
\* if (cnt == 900)
KillAt == 900

(***************************************************************************)
(* Bounds of the model.                                                    *)
(***************************************************************************)
\* process ids run from 2 to MaxPid (pid 1 is init and is left out)
MaxPid == 2
\* the restart interval -r is between 0 and MaxRestart seconds
MaxRestart == 2
\* the clock advances at most MaxTime seconds while children run
MaxTime == 2
\* the supervisor forks at most MaxStarts children
MaxStarts == 2
\* at most MaxSignals signals are delivered to the supervisor
MaxSignals == 2

\* The number of start-mode invocations on one pid-file path
NStart == 3

Pids == 2..MaxPid

(***************************************************************************)
(* The pid file's text.  A file is NoFile (the path does not exist: fopen  *)
(* fails with ENOENT) or a sequence of characters.                         *)
(***************************************************************************)
NoFile == <<"ENOENT">>

Digits == <<"0", "1", "2", "3", "4", "5", "6", "7", "8", "9">>

DigitChars == {Digits[i] : i \in 1..10}

DigitVal(c) == (CHOOSE i \in 1..10 : Digits[i] = c) - 1

Whitespace == {" ", "\n", "\t"}

RECURSIVE FormatNat(_)
\* the decimal digits of n >= 0, as sprintf("%d") prints them
FormatNat(n) ==
    IF n < 10 THEN <<Digits[n + 1]>>
    ELSE Append(FormatNat(n \div 10), Digits[(n % 10) + 1])

\* sprintf(buf, "%d\n", getpid())
FormatPid(p) ==
    IF p < 0 THEN <<"-">> \o FormatNat(-p) \o <<"\n">>
    ELSE FormatNat(p) \o <<"\n">>

RECURSIVE FgetsFrom(_, _)
\* the characters fgets stores: up to room of them, ending after a newline
FgetsFrom(s, room) ==
    IF s = <<>> \/ room = 0 THEN <<>>
    ELSE IF Head(s) = "\n" THEN <<"\n">>
    ELSE <<Head(s)>> \o FgetsFrom(Tail(s), room - 1)

\* strcpy(buf, "0"); fgets(buf, 100, pf): at end of file buf keeps "0"
Fgets(s) == IF s = <<>> THEN <<"0">> ELSE FgetsFrom(s, BufSize - 1)

RECURSIVE SkipSpace(_)
SkipSpace(s) ==
    IF s # <<>> /\ Head(s) \in Whitespace THEN SkipSpace(Tail(s)) ELSE s

RECURSIVE AtoiDigits(_, _)
AtoiDigits(s, acc) ==
    IF s = <<>> \/ Head(s) \notin DigitChars THEN acc
    ELSE AtoiDigits(Tail(s), acc * 10 + DigitVal(Head(s)))

\* atoi(buf): leading white space, an optional sign, then digits
Atoi(s) ==
    LET t == SkipSpace(s) IN
    IF t = <<>> THEN 0
    ELSE IF Head(t) = "-" THEN 0 - AtoiDigits(Tail(t), 0)
    ELSE IF Head(t) = "+" THEN AtoiDigits(Tail(t), 0)
    ELSE AtoiDigits(t, 0)

\* PidFile::readPid
ReadPid(f) == IF f = NoFile THEN 0 ELSE Atoi(Fgets(f))

(***************************************************************************)
(* The operating system's process table, as kill() sees it.  A pid or a    *)
(* process group is "none" (no such process), "own" (there, and we may     *)
(* signal it) or "foreign" (there, but signalling it fails with EPERM).    *)
(***************************************************************************)
ProcStates == {"none", "own", "foreign"}

StateOf(table, p) == IF p \in DOMAIN table THEN table[p] ELSE "none"

\* kill(pid, sig): pid 0 and negative pids name groups the caller is in or
\* may signal, and succeed
KillResult(table, p) ==
    IF p < 1 THEN "ok"
    ELSE CASE StateOf(table, p) = "own" -> "ok"
           [] StateOf(table, p) = "foreign" -> "EPERM"
           [] OTHER -> "ESRCH"

\* killpg(pid, sig): group 0 is the caller's own group
KillpgResult(table, p) ==
    IF p < 0 THEN "EINVAL"
    ELSE IF p = 0 THEN "ok"
    ELSE CASE StateOf(table, p) = "own" -> "ok"
           [] StateOf(table, p) = "foreign" -> "EPERM"
           [] OTHER -> "ESRCH"

\* PidFile::isRunning, with a pid check that lets every pid through
IsRunningNoPidCheck(f, table) ==
    KillResult(table, ReadPid(f)) \in {"ok", "EPERM"}

\* PidFile::isRunning
IsRunning(f, table) ==
    LET p == ReadPid(f) IN
    IF p < 1 THEN FALSE
    ELSE KillResult(table, p) \in {"ok", "EPERM"}

\* PidFile::isMine
IsMine(f, self) == ReadPid(f) = self

(***************************************************************************)
(* State of stop mode (main, lines 353-397).                               *)
(*   stPc      where the stop-mode process is in main()                    *)
(*   killcmd   TRUE when -k gave a stop command (killcmd != NULL)          *)
(*   stFile    the text of the pid file, or NoFile                         *)
(*   procs     the process table kill(pid, 0) probes                       *)
(*   grps      the process groups killpg(pid, sig) reaches                 *)
(*   pid       main's local: int pid = mypf.readPid()                      *)
(*   cnt       the polling loop's counter                                  *)
(*   stExit    the process's exit status, -1 while it runs                 *)
(* Observations kept for the properties:                                   *)
(*   stSent    the signals sent so far: to which pid, which signal, and    *)
(*             after how many 100 ms sleeps                                *)
(*   stRanCmd  system(killcmd) was called                                  *)
(*   stCleaned cleanUp() was called                                        *)
(*   stFile0, stProcs0  the pid file and process table at the start        *)
(*   stProbeFail  -1, or the length of stSent when killpg(pid, 0) failed   *)
(***************************************************************************)
VARIABLES stPc, killcmd, stFile, procs, grps, pid, cnt, stExit,
          stSent, stRanCmd, stCleaned, stFile0, stProcs0, stProbeFail

stopVars == <<stPc, killcmd, stFile, procs, grps, pid, cnt, stExit,
              stSent, stRanCmd, stCleaned, stFile0, stProcs0, stProbeFail>>

(***************************************************************************)
(* State of the detached supervisor (main, lines 440-463, and loop()).     *)
(*   restart      the -r interval in seconds                               *)
(*   gotstopsig, lastsig, unhandledsig   the handler's three flags         *)
(*   mPc          where the supervisor is in main() and loop()             *)
(*   now          time(NULL), in seconds                                   *)
(*   laststart, stat   main's locals                                       *)
(*   child, outeof, erreof, wstat   loop()'s locals                        *)
(*   supExit      the supervisor's exit status, -1 while it runs           *)
(* What the child and the pipes do is drawn where the supervisor asks the  *)
(* kernel for it: in select() and the reads, and in waitpid().             *)
(* Observations kept for the properties:                                   *)
(*   started      the number of children forked                            *)
(*   delivered    the number of signals delivered to the supervisor        *)
(*   latest       the signal delivered last, 0 if none was                 *)
(*   forwarded    the last kill() call of loop(): the signal, the target,  *)
(*                and the signal that had been delivered last              *)
(*   prevStart    laststart as it was before line 444 last set it          *)
(*   retAt        time(NULL) when loop() last returned                     *)
(*   reaped       the pid of the child last reaped and how the kernel says *)
(*                it ended: [pid, kind, val], kind "exit" or "signal"      *)
(*   forkStop     gotstopsig at the last fork                              *)
(*   sigRun       the number of the child that was not yet reaped when a   *)
(*                signal was first delivered during a run, 0 if none was   *)
(*   round        the select() round just done, until waitpid is reached:  *)
(*                the pipes in the set, those reported ready, those read   *)
(*   closed       how often loop() has closed the read end of each pipe in *)
(*                this run                                                 *)
(***************************************************************************)
VARIABLES restart, gotstopsig, lastsig, unhandledsig, mPc, now, laststart,
          stat, child, outeof, erreof, wstat, supExit,
          started, delivered, latest, forwarded, prevStart, retAt, reaped,
          forkStop, sigRun, round, closed

sigVars == <<gotstopsig, lastsig, unhandledsig>>

mainVars == <<restart, now, laststart, stat, supExit>>

loopVars == <<child, outeof, erreof, wstat>>

obsVars == <<started, delivered, latest, forwarded, prevStart, retAt, reaped,
             forkStop, sigRun>>

rndVars == <<round, closed>>

supVars == <<sigVars, mainVars, loopVars, obsVars, rndVars, mPc>>

(***************************************************************************)
(* State of start mode run several times on one pid-file path (main,       *)
(* lines 402-471, and PidFile).  Invocation i is a bootstrap process and,  *)
(* after fork(), its detached supervisor.                                  *)
(*   bootPc, supPc  where the two processes of each invocation are         *)
(*   lkPath     the inode the path names, 0 when there is no such file     *)
(*   lkText     the text of each inode                                     *)
(*   lkNextIno  the inode the next open(O_CREAT) of a missing file makes   *)
(*   lkFd       the inode each invocation's descriptor _fd is open on, 0   *)
(*              while there is none                                        *)
(*   lkHolders  which of the two processes have that descriptor open       *)
(*   lkLocked   whether flock() gave the lock to that open file            *)
(*   lkProcs    the process table kill(pid, 0) answers from                *)
(*   lkExit     how each bootstrap process ended                           *)
(*   lkStop     where a stop-mode process run on the same path is          *)
(* Observation kept for the properties:                                    *)
(*   lkSawLock  whether any invocation held a lock when line 402 found     *)
(*              the recorded pid running                                   *)
(***************************************************************************)
VARIABLES bootPc, supPc, lkPath, lkText, lkNextIno, lkFd, lkHolders,
          lkLocked, lkProcs, lkExit, lkSawLock, lkStop

lockVars == <<bootPc, supPc, lkPath, lkText, lkNextIno, lkFd, lkHolders,
              lkLocked, lkProcs, lkExit, lkSawLock, lkStop>>

vars == <<stopVars, supVars, lockVars>>

\* The invocations of start mode
Inv == 1..NStart

\* One inode the path may name at first, and one for every invocation that
\* finds no file
Inodes == 1..(NStart + 1)

\* getpid() of the supervisor of invocation i
SupPid(i) == i + 1

\* The pid of a process that is no runserver and belongs to another user
ForeignPid == NStart + 2

LockPids == 2..ForeignPid

\* The lock variables while another specification runs
LockIdle ==
    /\ bootPc = [i \in Inv |-> "idle"] /\ supPc = [i \in Inv |-> "none"]
    /\ lkPath = 0 /\ lkText = [n \in Inodes |-> <<>>] /\ lkNextIno = 1
    /\ lkFd = [i \in Inv |-> 0] /\ lkHolders = [i \in Inv |-> {}]
    /\ lkLocked = [i \in Inv |-> FALSE]
    /\ lkProcs = [p \in LockPids |-> "none"]
    /\ lkExit = [i \in Inv |-> "none"]
    /\ lkSawLock = [i \in Inv |-> FALSE]
    /\ lkStop = "idle"

\* Texts in which atoi finds no number
UnparsableTexts == {<<>>, <<"x", "\n">>, <<"\n">>, <<"-", "x">>}

\* Texts whose number names no process: zero, or negative
NonPositiveTexts == {<<"0", "\n">>, <<"-", "2", "\n">>}

\* Texts atoi reads a pid from although more than the pid is there
PrefixTexts == {<<"2", "x", "\n">>, <<" ", "2", "\n", "3", "\n">>}

PidTexts == {FormatPid(p) : p \in Pids \cup {MaxPid + 5}}

PidFileTexts ==
    {NoFile} \cup UnparsableTexts \cup NonPositiveTexts \cup PrefixTexts
        \cup PidTexts

\* The pid of the stop-mode process itself (getpid()); no pid file names it
StopSelf == MaxPid + 1

SentRec(t, p, sig) == [t |-> t, pid |-> p, sig |-> sig]

\* 128 + SIGTERM: the status of a process that SIGTERM killed
KilledBySigterm == 143

\* No kill() call yet
NoForward == [sig |-> 0, to |-> 0, latest |-> 0]

\* The two pipes of the child
Streams == {"out", "err"}

\* No select() round to look at
NoRound == [sel |-> {}, ready |-> {}, read |-> {}]

\* No pipe closed yet
NoneClosed == [s \in Streams |-> 0]

\* No child reaped yet
NoReaped == [pid |-> 0, kind |-> "none", val |-> 0]

\* The supervisor's variables while another specification runs
SupIdle ==
    /\ restart = 0 /\ gotstopsig = 0 /\ lastsig = 0 /\ unhandledsig = 0
    /\ mPc = "idle" /\ now = 0 /\ laststart = 0 /\ stat = 0
    /\ child = 0 /\ outeof = FALSE /\ erreof = FALSE /\ wstat = 0
    /\ supExit = -1
    /\ started = 0 /\ delivered = 0 /\ latest = 0 /\ forwarded = NoForward
    /\ prevStart = 0 /\ retAt = 0 /\ reaped = NoReaped
    /\ forkStop = 0 /\ sigRun = 0
    /\ round = NoRound /\ closed = NoneClosed

\* Stop mode begins (line 353).  A run asks the kernel about no pid but the
\* one the file names, so every other process is left out of the tables.
StopInit ==
    /\ SupIdle
    /\ LockIdle
    /\ stPc = "isRunning"
    /\ killcmd \in BOOLEAN
    /\ stFile \in PidFileTexts
    /\ procs \in [Pids -> ProcStates]
    /\ grps \in [Pids -> ProcStates]
    /\ \A p \in Pids \ {ReadPid(stFile)} :
        procs[p] = "none" /\ grps[p] = "none"
    /\ pid = 0
    /\ cnt = 0
    /\ stExit = -1
    /\ stSent = <<>>
    /\ stRanCmd = FALSE
    /\ stCleaned = FALSE
    /\ stFile0 = stFile
    /\ stProcs0 = procs
    /\ stProbeFail = -1

\* line 354: if (mypf.isRunning())
StopIsRunning ==
    /\ UNCHANGED <<supVars, lockVars>>
    /\ stPc = "isRunning"
    /\ stPc' = IF IsRunning(stFile, procs) THEN "readPid" ELSE "notRunning"
    /\ UNCHANGED <<killcmd, stFile, procs, grps, pid, cnt, stExit, stSent,
                   stRanCmd, stCleaned, stFile0, stProcs0, stProbeFail>>

\* line 355: int pid = mypf.readPid()
StopReadPid ==
    /\ UNCHANGED <<supVars, lockVars>>
    /\ stPc = "readPid"
    /\ pid' = ReadPid(stFile)
    /\ stPc' = "signal"
    /\ UNCHANGED <<killcmd, stFile, procs, grps, cnt, stExit, stSent, stRanCmd,
                   stCleaned, stFile0, stProcs0, stProbeFail>>

\* lines 356-361: system(killcmd), whatever it returns
StopKillCmd ==
    /\ UNCHANGED <<supVars, lockVars>>
    /\ stPc = "signal"
    /\ killcmd
    /\ stRanCmd' = TRUE
    /\ stPc' = "poll"
    /\ UNCHANGED <<killcmd, stFile, procs, grps, pid, cnt, stExit, stSent,
                   stCleaned, stFile0, stProcs0, stProbeFail>>

\* lines 363-369: killpg(pid, SIGTERM); exit(1) when it fails.  SIGTERM to
\* group 0 is SIGTERM to the caller's own group: it ends the caller.
StopSigterm ==
    /\ UNCHANGED <<supVars, lockVars>>
    /\ stPc = "signal"
    /\ ~killcmd
    /\ stSent' = Append(stSent, SentRec(0, pid, SIGTERM))
    /\ IF pid = 0
       THEN stPc' = "done" /\ stExit' = KilledBySigterm
       ELSE IF KillpgResult(grps, pid) # "ok"
            THEN stPc' = "done" /\ stExit' = 1
            ELSE stPc' = "poll" /\ stExit' = stExit
    /\ UNCHANGED <<killcmd, stFile, procs, grps, pid, cnt, stRanCmd, stCleaned,
                   stFile0, stProcs0, stProbeFail>>

\* line 374, with the first re-send one period early
ResendDueFrom300(c) == (c >= ResendAfter) /\ (c % ResendEvery = 0)

\* line 374: (cnt > 300) && (cnt % 100 == 0)
ResendDue(c) == (c > ResendAfter) /\ (c % ResendEvery = 0)

\* line 386: cnt == 900
KillDue(c) == c = KillAt

\* lines 377-385 without the break
AfterProbeNoBreak(alive) == "poll"

\* lines 377-385: the loop goes on while killpg(pid, 0) == 0, else break
AfterProbe(alive) == IF alive THEN "poll" ELSE "cleanUp"

\* lines 372-390: one turn of the polling loop.  t is the number of 100 ms
\* sleeps done when this turn's signals are sent.
StopPoll ==
    /\ UNCHANGED <<supVars, lockVars>>
    /\ stPc = "poll"
    /\ cnt < PollLimit
    /\ LET t == cnt + 1
           resend == ResendDue(cnt)
           selfKill == resend /\ pid = 0
           alive == KillpgResult(grps, pid) = "ok"
           next == AfterProbe(alive)
           kill == next = "poll" /\ KillDue(cnt)
           s1 == IF resend
                 THEN Append(stSent, SentRec(t, pid, SIGTERM)) ELSE stSent
           s2 == IF kill /\ ~selfKill
                 THEN Append(s1, SentRec(t, pid, SIGKILL)) ELSE s1
       IN  /\ stSent' = s2
           /\ IF selfKill
              THEN /\ stPc' = "done"
                   /\ stExit' = KilledBySigterm
                   /\ UNCHANGED <<cnt, stProbeFail>>
              ELSE /\ stPc' = next
                   /\ stExit' = stExit
                   /\ cnt' = IF next = "poll" THEN cnt + 1 ELSE cnt
                   /\ stProbeFail' =
                        IF alive THEN stProbeFail ELSE Len(s1)
    /\ UNCHANGED <<killcmd, stFile, procs, grps, pid, stRanCmd, stCleaned,
                   stFile0, stProcs0>>

\* line 372: cnt < 1800 is false, the loop is over
StopPollEnd ==
    /\ UNCHANGED <<supVars, lockVars>>
    /\ stPc = "poll"
    /\ cnt >= PollLimit
    /\ stPc' = "cleanUp"
    /\ UNCHANGED <<killcmd, stFile, procs, grps, pid, cnt, stExit, stSent,
                   stRanCmd, stCleaned, stFile0, stProcs0, stProbeFail>>

\* lines 391-394: "not running according to"
StopNotRunning ==
    /\ UNCHANGED <<supVars, lockVars>>
    /\ stPc = "notRunning"
    /\ stPc' = "cleanUp"
    /\ UNCHANGED <<killcmd, stFile, procs, grps, pid, cnt, stExit, stSent,
                   stRanCmd, stCleaned, stFile0, stProcs0, stProbeFail>>

\* PidFile::cleanUp, line 62: whether the file is removed
CleanUpRemoves(f, table, self) == IsMine(f, self) \/ ~IsRunning(f, table)

\* line 395: mypf.cleanUp(); stop mode never opened the file (_fd is -1)
StopCleanUp ==
    /\ UNCHANGED <<supVars, lockVars>>
    /\ stPc = "cleanUp"
    /\ stFile' = IF CleanUpRemoves(stFile, procs, StopSelf)
                 THEN NoFile ELSE stFile
    /\ stCleaned' = TRUE
    /\ stPc' = "exit"
    /\ UNCHANGED <<killcmd, procs, grps, pid, cnt, stExit, stSent, stRanCmd,
                   stFile0, stProcs0, stProbeFail>>

\* line 396: exit(0)
StopExit ==
    /\ UNCHANGED <<supVars, lockVars>>
    /\ stPc = "exit"
    /\ stExit' = 0
    /\ stPc' = "done"
    /\ UNCHANGED <<killcmd, stFile, procs, grps, pid, cnt, stSent, stRanCmd,
                   stCleaned, stFile0, stProcs0, stProbeFail>>

\* The process the pid file names ends: a supervisor removes its pid file
\* (cleanUp, line 462) and exits; one that crashes leaves the file.
EnvProcessEnds ==
    /\ UNCHANGED <<supVars, lockVars>>
    /\ stPc # "done"
    /\ \E p \in Pids :
        /\ procs[p] # "none"
        /\ procs' = [procs EXCEPT ![p] = "none"]
        /\ \/ stFile' = stFile
           \/ /\ stFile # NoFile
              /\ ReadPid(stFile) = p
              /\ stFile' = NoFile
    /\ UNCHANGED <<stPc, killcmd, grps, pid, cnt, stExit, stSent, stRanCmd,
                   stCleaned, stFile0, stProcs0, stProbeFail>>

\* The last member of a process group ends
EnvGroupEnds ==
    /\ UNCHANGED <<supVars, lockVars>>
    /\ stPc # "done"
    /\ \E g \in Pids :
        /\ grps[g] # "none"
        /\ grps' = [grps EXCEPT ![g] = "none"]
    /\ UNCHANGED <<stPc, killcmd, stFile, procs, pid, cnt, stExit, stSent,
                   stRanCmd, stCleaned, stFile0, stProcs0, stProbeFail>>

StopNext ==
    \/ StopIsRunning
    \/ StopReadPid
    \/ StopKillCmd
    \/ StopSigterm
    \/ StopPoll
    \/ StopPollEnd
    \/ StopNotRunning
    \/ StopCleanUp
    \/ StopExit
    \/ EnvProcessEnds
    \/ EnvGroupEnds

SpecStop == StopInit /\ [][StopNext]_vars

(***************************************************************************)
(* Properties of stop mode.                                                *)
(***************************************************************************)
SentTimes(sig) ==
    {stSent[i].t : i \in {j \in 1..Len(stSent) : stSent[j].sig = sig}}

\* The pid file at the start is missing, holds no number, or names a pid
\* that no process has
C7_DeadPidFile ==
    \/ stFile0 = NoFile
    \/ stFile0 \in UnparsableTexts
    \/ stFile0 \in NonPositiveTexts
    \/ \E p \in Pids \cup {MaxPid + 5} :
          stFile0 = FormatPid(p) /\ StateOf(stProcs0, p) = "none"

\* C7: stop mode against a pid file that is missing, unparsable or names a
\* pid that does not exist takes the "not running" branch, sends no signal
\* to any process or group, does not run the stop command, and exits 0.
C7_NotRunningIsQuiet ==
    C7_DeadPidFile =>
        /\ stPc \in {"isRunning", "notRunning", "cleanUp", "exit", "done"}
        /\ stSent = <<>>
        /\ ~stRanCmd
        /\ stExit = (IF stPc = "done" THEN 0 ELSE -1)

C7_Witness ==
    /\ C7_DeadPidFile
    /\ stFile0 = FormatPid(2)
    /\ killcmd
    /\ stPc = "done"
    /\ stExit = 0

\* C8 as claimed: against a group that stays alive, SIGTERM goes out at
\* t = 0 and again at about 30 s, 40 s and 50 s, and SIGKILL once at about
\* 90 s (times in whole seconds, ten polls to the second).
C8_ScheduleAsClaimed ==
    (stPc = "poll" /\ ~killcmd /\ pid \in Pids) =>
        /\ {t \div 10 : t \in SentTimes(SIGTERM)}
              = {0} \cup {s \in {30, 40, 50} : s * 10 < cnt}
        /\ {t \div 10 : t \in SentTimes(SIGKILL)}
              = {s \in {90} : s * 10 < cnt}

\* C8 as the code has it: against a group that stays alive, SIGTERM goes
\* out at t = 0 (when no stop command is given) and again in the polls
\* cnt = 400, 500, ..., 1700 (about 40 s, 50 s, ..., 170 s: every 10 s once
\* MORE than 30 s have passed), SIGKILL goes out once, in the poll cnt = 900
\* (about 90 s), and nothing else is sent.
C8_Schedule ==
    stPc = "poll" =>
        /\ SentTimes(SIGTERM)
              = (IF killcmd THEN {} ELSE {0})
                    \cup {100 * k + 1 : k \in {j \in 4..17 : 100 * j < cnt}}
        /\ SentTimes(SIGKILL) = (IF cnt > 900 THEN {901} ELSE {})
        /\ Len(stSent) = Cardinality(SentTimes(SIGTERM))
                            + Cardinality(SentTimes(SIGKILL))

C8_Witness ==
    /\ stPc = "poll"
    /\ ~killcmd
    /\ cnt = PollLimit
    /\ Len(stSent) = 16

\* C9 as claimed: stop mode polls at most 600 times (60 seconds).
C9_AtMost600Polls == cnt <= 600

\* C10: the polling loop ends at the first poll in which killpg(pid, 0)
\* fails, and from that poll on stop mode sends no signal: it only cleans up
\* and exits.
C10_StopsAtFirstFailedProbe ==
    stProbeFail # -1 =>
        /\ stPc \in {"cleanUp", "exit", "done"}
        /\ Len(stSent) = stProbeFail

C10_Witness ==
    /\ stProbeFail > 1
    /\ stPc = "done"
    /\ stExit = 0
    /\ cnt > KillAt

(***************************************************************************)
(* The detached supervisor: termsig(), loop() and the restart loop of      *)
(* main().                                                                 *)
(***************************************************************************)
\* The stop-mode variables while another specification runs
StopIdle ==
    /\ stPc = "idle" /\ killcmd = FALSE /\ stFile = NoFile
    /\ procs = [p \in Pids |-> "none"] /\ grps = [p \in Pids |-> "none"]
    /\ pid = 0 /\ cnt = 0 /\ stExit = -1 /\ stSent = <<>>
    /\ stRanCmd = FALSE /\ stCleaned = FALSE /\ stFile0 = NoFile
    /\ stProcs0 = [p \in Pids |-> "none"] /\ stProbeFail = -1

\* The wait status the kernel stores, and the macros of <sys/wait.h>
ExitStatus(code) == code * 256

SignalStatus(sig, core) == sig + (IF core THEN 128 ELSE 0)

StopStatus(sig) == sig * 256 + 127

WIFSTOPPED(w) == w % 256 = 127

WIFEXITED(w) == w % 128 = 0

WEXITSTATUS(w) == (w \div 256) % 256

WIFSIGNALED(w) == (w % 128) \in 1..126

WTERMSIG(w) == w % 128

\* the status of a process that abort() ended: 128 + SIGABRT
Aborted == 134

\* How a child ends: exit(code), or killed by SIGINT or SIGTERM (which the
\* supervisor, stop mode or anyone else may have sent it) or by SIGSEGV
ChildEnds ==
    {[kind |-> "exit", val |-> c] : c \in {0, 1}}
        \cup {[kind |-> "signal", val |-> sg] :
                  sg \in {SIGINT, SIGTERM, SIGSEGV}}

\* The wait status of a child that ended; SIGSEGV dumps core
EndStatus(e) ==
    IF e.kind = "exit" THEN ExitStatus(e.val)
    ELSE SignalStatus(e.val, e.val = SIGSEGV)

SupInit ==
    /\ StopIdle
    /\ LockIdle
    /\ restart \in 0..MaxRestart
    /\ gotstopsig = 0 /\ lastsig = 0 /\ unhandledsig = 0
    /\ mPc = "laststart" /\ now = 0 /\ laststart = 0 /\ stat = 0
    /\ child = 0 /\ outeof = FALSE /\ erreof = FALSE /\ wstat = 0
    /\ supExit = -1
    /\ started = 0 /\ delivered = 0 /\ latest = 0 /\ forwarded = NoForward
    /\ prevStart = 0 /\ retAt = 0 /\ reaped = NoReaped
    /\ forkStop = 0 /\ sigRun = 0
    /\ round = NoRound /\ closed = NoneClosed

\* lines 34-38: the handler of SIGINT and SIGTERM, installed at lines
\* 435-438.  The handler runs to its end before main() goes on, so main()
\* sees its three stores at once.
Termsig(sig) ==
    /\ mPc \notin {"idle", "done", "failed", "aborted"}
    /\ delivered < MaxSignals
    /\ lastsig' = sig
    /\ gotstopsig' = 1
    /\ unhandledsig' = 1
    /\ delivered' = delivered + 1
    /\ latest' = sig
    /\ sigRun' = IF sigRun = 0 /\ child # 0 THEN started ELSE sigRun
    /\ UNCHANGED <<stopVars, lockVars, rndVars, mainVars, loopVars, mPc,
                   started, forwarded, prevStart, retAt, reaped, forkStop>>

\* line 444: time_t laststart = time(NULL), in every turn of the do loop
NewLaststart(t, old, n) == t

\* line 444
MainLaststart ==
    /\ mPc = "laststart"
    /\ laststart' = NewLaststart(now, laststart, started)
    /\ prevStart' = laststart
    /\ mPc' = "fork"
    /\ UNCHANGED <<stopVars, lockVars, rndVars, sigVars, restart, now, stat,
                   supExit, loopVars, started, delivered, latest, forwarded,
                   retAt, reaped, forkStop, sigRun>>

\* lines 141-208: the pipes, fork(), and the parent's set-up.  The child gets
\* a pid no earlier child had.
LoopFork ==
    /\ mPc = "fork"
    /\ started < MaxStarts
    /\ started' = started + 1
    /\ child' = started + 2
    /\ outeof' = FALSE /\ erreof' = FALSE /\ wstat' = 0
    /\ forkStop' = gotstopsig
    /\ round' = NoRound /\ closed' = NoneClosed
    /\ mPc' = "loopcond"
    /\ UNCHANGED <<stopVars, lockVars, sigVars, mainVars, delivered, latest,
                   forwarded, prevStart, retAt, reaped, sigRun>>

\* lines 141-144 and 165-168: pipe() or fork() fails, exit(1)
LoopForkFails ==
    /\ mPc = "fork"
    /\ supExit' = 1
    /\ mPc' = "failed"
    /\ UNCHANGED <<stopVars, lockVars, rndVars, sigVars, restart, now,
                   laststart, stat, loopVars, obsVars>>

\* line 210 with the pipes left out of the condition
LoopGoesOnChildOnly(c, oe, ee) == c # 0

\* line 210: child || !outeof || !erreof
LoopGoesOn(c, oe, ee) == c # 0 \/ ~oe \/ ~ee

\* line 210: while (child || !outeof || !erreof)
LoopCond ==
    /\ mPc = "loopcond"
    /\ mPc' = IF LoopGoesOn(child, outeof, erreof) THEN "select" ELSE "return"
    /\ UNCHANGED <<stopVars, lockVars, rndVars, sigVars, mainVars, loopVars,
                   obsVars>>

\* What select() and the read find on a pipe: nothing to read, bytes, or the
\* end of the stream (every write end is closed)
PipeFinds == {"nothing", "bytes", "eof"}

\* InputBuf::blockRead: TRUE when the read got bytes, FALSE at end of stream
BlockRead(found) == found = "bytes"

\* lines 219-220 and 224-249 for one pipe: it is in the set select() waits on
\* only while its eof flag is unset; when select() reports it, blockRead
\* reads it, and at end of stream the flag is set and the descriptor closed
EofAfter(eof, found) ==
    IF ~eof /\ found # "nothing" /\ ~BlockRead(found) THEN TRUE ELSE eof

\* lines 219-220: a pipe is put in the set select() waits on while its eof
\* flag is unset
InSet(eof) == ~eof

\* lines 237-249 as the else branch of line 224
ReadsErrElse(ready) == "err" \in ready /\ "out" \notin ready

\* line 224: if (FD_ISSET(pstdout[0], &pipes))
ReadsOut(ready) == "out" \in ready

\* line 237: if (FD_ISSET(pstderr[0], &pipes))
ReadsErr(ready) == "err" \in ready

\* lines 211-250: select() over the pipes still open, then the reads; a
\* read that finds the end of the stream sets the flag and closes the pipe
LoopSelect ==
    /\ mPc = "select"
    /\ \E fo \in PipeFinds, fe \in PipeFinds :
        LET eof == [s \in Streams |-> IF s = "out" THEN outeof ELSE erreof]
            found == [s \in Streams |-> IF s = "out" THEN fo ELSE fe]
            sel == {s \in Streams : InSet(eof[s])}
            ready == {s \in sel : found[s] # "nothing"}
            read == {s \in Streams :
                        IF s = "out" THEN ReadsOut(ready) ELSE ReadsErr(ready)}
            got == [s \in Streams |->
                        IF s \in read THEN found[s] ELSE "nothing"]
        IN  /\ outeof' = EofAfter(outeof, got["out"])
            /\ erreof' = EofAfter(erreof, got["err"])
            /\ closed' = [s \in Streams |->
                            IF s \in read /\ ~BlockRead(found[s])
                            THEN closed[s] + 1 ELSE closed[s]]
            /\ round' = [sel |-> sel, ready |-> ready, read |-> read]
    /\ mPc' = "waitpid"
    /\ UNCHANGED <<stopVars, lockVars, sigVars, mainVars, child, wstat,
                   obsVars>>

\* lines 255-275: what becomes of child for the status waitpid stored; -1
\* stands for abort()
ChildAfterWait(w, c) ==
    IF WIFSTOPPED(w) THEN c
    ELSE IF WIFEXITED(w) THEN 0
    ELSE IF WIFSIGNALED(w) THEN 0
    ELSE -1

\* line 252: child == 0, waitpid is not called
LoopNoWait ==
    /\ mPc = "waitpid"
    /\ round' = NoRound
    /\ child = 0
    /\ mPc' = "sigcheck"
    /\ UNCHANGED <<stopVars, lockVars, closed, sigVars, mainVars, loopVars,
                   obsVars>>

\* lines 253-254: waitpid(child, &wstat, WNOHANG) returns 0, the child is
\* as it was, and wstat is left alone
LoopWaitNothing ==
    /\ mPc = "waitpid"
    /\ round' = NoRound
    /\ child # 0
    /\ mPc' = "sigcheck"
    /\ UNCHANGED <<stopVars, lockVars, closed, sigVars, mainVars, loopVars,
                   obsVars>>

\* lines 253-257: waitpid reports that the (traced) child stopped
LoopWaitStopped ==
    /\ mPc = "waitpid"
    /\ round' = NoRound
    /\ child # 0
    /\ wstat' = StopStatus(SIGSTOP)
    /\ child' = ChildAfterWait(wstat', child)
    /\ mPc' = "sigcheck"
    /\ UNCHANGED <<stopVars, lockVars, closed, sigVars, mainVars, outeof,
                   erreof, obsVars>>

\* lines 253-275: waitpid reaps the child, which ended with e
LoopWaitReaps ==
    /\ mPc = "waitpid"
    /\ round' = NoRound
    /\ child # 0
    /\ \E e \in ChildEnds :
        /\ wstat' = EndStatus(e)
        /\ reaped' = [pid |-> child, kind |-> e.kind, val |-> e.val]
    /\ IF ChildAfterWait(wstat', child) = -1
       THEN mPc' = "aborted" /\ supExit' = Aborted /\ child' = child
       ELSE mPc' = "sigcheck" /\ supExit' = supExit
            /\ child' = ChildAfterWait(wstat', child)
    /\ UNCHANGED <<stopVars, lockVars, closed, sigVars, restart, now,
                   laststart, stat, outeof, erreof, started, delivered, latest,
                   forwarded, prevStart, retAt, forkStop, sigRun>>

\* lines 276-278: waitpid fails (cpid < 0), abort()
LoopWaitFails ==
    /\ mPc = "waitpid"
    /\ child # 0
    /\ round' = NoRound
    /\ supExit' = Aborted
    /\ mPc' = "aborted"
    /\ UNCHANGED <<stopVars, lockVars, closed, sigVars, restart, now,
                   laststart, stat, loopVars, obsVars>>

\* line 285 without the test of child
ForwardDueAnyChild(u, c) == u # 0

\* line 285: the condition under which the signal is sent on
ForwardDue(u, c) == u # 0 /\ c # 0

\* line 285: if (unhandledsig && child != 0)
LoopSigCheck ==
    /\ mPc = "sigcheck"
    /\ mPc' = IF ForwardDue(unhandledsig, child) THEN "kill" ELSE "loopcond"
    /\ UNCHANGED <<stopVars, lockVars, rndVars, sigVars, mainVars, loopVars,
                   obsVars>>

\* line 291: the signal kill() is called with
ForwardSig(ls) == ls

\* line 291: kill(child, lastsig)
LoopKill ==
    /\ mPc = "kill"
    /\ forwarded' = [sig |-> ForwardSig(lastsig), to |-> child,
                     latest |-> latest]
    /\ mPc' = "clear"
    /\ UNCHANGED <<stopVars, lockVars, rndVars, sigVars, mainVars, loopVars,
                   started, delivered, latest, prevStart, retAt, reaped,
                   forkStop, sigRun>>

\* line 292 clearing the stop flag as well
StopFlagAfterClearReset(g) == 0

\* line 292 stores to unhandledsig only: gotstopsig is as it was
StopFlagAfterClear(g) == g

\* line 292: unhandledsig = 0
LoopClear ==
    /\ mPc = "clear"
    /\ unhandledsig' = 0
    /\ gotstopsig' = StopFlagAfterClear(gotstopsig)
    /\ mPc' = "loopcond"
    /\ UNCHANGED <<stopVars, lockVars, rndVars, lastsig, mainVars, loopVars,
                   obsVars>>

\* lines 295-297 returning the exit status only
LoopResultExitOnly(w) == WEXITSTATUS(w)

\* lines 295-297: what loop() returns
LoopResult(w) == IF WIFSIGNALED(w) THEN WTERMSIG(w) ELSE WEXITSTATUS(w)

\* lines 295-297 and 445: stat = loop(...)
LoopReturn ==
    /\ mPc = "return"
    /\ stat' = LoopResult(wstat)
    /\ retAt' = now
    /\ mPc' = "wait"
    /\ UNCHANGED <<stopVars, lockVars, rndVars, sigVars, restart, now,
                   laststart, supExit, loopVars, started, delivered, latest,
                   forwarded, prevStart, reaped, forkStop, sigRun>>

\* line 451 with the interval counted from the return of loop()
WaitBaseReturn(ls, ret) == ret

\* line 451: the time the interval is counted from
WaitBase(ls, ret) == ls

\* line 451: while (!gotstopsig && time(NULL) - laststart < restart)
MainWaitCheck ==
    /\ mPc = "wait"
    /\ mPc' = IF gotstopsig = 0 /\ now - WaitBase(laststart, retAt) < restart
              THEN "sleep" ELSE "again"
    /\ UNCHANGED <<stopVars, lockVars, rndVars, sigVars, mainVars, loopVars,
                   obsVars>>

\* line 452: sleep(1)
MainSleep ==
    /\ mPc = "sleep"
    /\ now' = now + 1
    /\ mPc' = "wait"
    /\ UNCHANGED <<stopVars, lockVars, rndVars, sigVars, restart, laststart,
                   stat, supExit, loopVars, obsVars>>

\* line 454 with the loop left after one turn
RestartAgainNever(g, r) == FALSE

\* line 454: while (!gotstopsig && restart > 0)
RestartAgain(g, r) == g = 0 /\ r > 0

\* line 454
MainAgain ==
    /\ mPc = "again"
    /\ mPc' = IF RestartAgain(gotstopsig, restart)
              THEN "laststart" ELSE "cleanup"
    /\ UNCHANGED <<stopVars, lockVars, rndVars, sigVars, mainVars, loopVars,
                   started, delivered, latest, forwarded, prevStart, retAt,
                   reaped, forkStop, sigRun>>

\* lines 459-462: the final log line and mypf.cleanUp()
MainCleanUp ==
    /\ mPc = "cleanup"
    /\ mPc' = "exit"
    /\ UNCHANGED <<stopVars, lockVars, rndVars, sigVars, mainVars, loopVars,
                   obsVars>>

\* line 463: exit(stat); the status is stat & 0377
MainExit ==
    /\ mPc = "exit"
    /\ supExit' = stat % 256
    /\ mPc' = "done"
    /\ UNCHANGED <<stopVars, lockVars, rndVars, sigVars, restart, now,
                   laststart, stat, loopVars, obsVars>>

\* A second passes while loop() waits in select()
Tick ==
    /\ mPc = "select"
    /\ now < MaxTime
    /\ now' = now + 1
    /\ UNCHANGED <<stopVars, lockVars, rndVars, sigVars, restart, laststart,
                   stat, supExit, loopVars, obsVars, mPc>>

SupNext ==
    \/ \E sig \in {SIGINT, SIGTERM} : Termsig(sig)
    \/ MainLaststart
    \/ LoopFork
    \/ LoopForkFails
    \/ LoopCond
    \/ LoopSelect
    \/ LoopNoWait
    \/ LoopWaitNothing
    \/ LoopWaitStopped
    \/ LoopWaitReaps
    \/ LoopWaitFails
    \/ LoopSigCheck
    \/ LoopKill
    \/ LoopClear
    \/ LoopReturn
    \/ MainWaitCheck
    \/ MainSleep
    \/ MainAgain
    \/ MainCleanUp
    \/ MainExit
    \/ Tick

SpecSup == SupInit /\ [][SupNext]_vars

\* A step of main() outside loop(): the return of loop(), the tests at lines
\* 451 and 454, sleep(1) returning, line 444, cleanUp() and exit()
MainStep ==
    \/ LoopReturn
    \/ MainWaitCheck
    \/ MainSleep
    \/ MainAgain
    \/ MainLaststart
    \/ MainCleanUp
    \/ MainExit

\* The supervisor with its progress in main(): the process is scheduled and
\* sleep(1) returns, so main() takes its next step when one is due
SpecSupLive == SpecSup /\ WF_vars(MainStep)

(***************************************************************************)
(* Properties of the supervisor                                            *)
(***************************************************************************)
\* Where loop() is between fork() and its return
LoopPcs == {"loopcond", "select", "waitpid", "sigcheck", "kill", "clear"}

\* Where main() is between the return of loop() and exit()
AfterLoopPcs == {"wait", "sleep", "again", "cleanup", "exit"}

Max(a, b) == IF a >= b THEN a ELSE b

\* C3: a signal delivered while the child is not yet reaped is forwarded to
\* that child with its own number (whenever the child is still there and no
\* forward is pending, the last kill() went to this child with the signal
\* delivered last), no further child is started, and the supervisor exits
\* with the outcome of that child
C3_ForwardedThenExit ==
    /\ (mPc \in LoopPcs \ {"kill", "clear"} /\ child # 0 /\ latest # 0
            /\ unhandledsig = 0)
        => (forwarded.sig = latest /\ forwarded.to = child)
    /\ sigRun # 0 => started = sigRun
    /\ (sigRun # 0 /\ mPc = "done")
        => (reaped.pid = sigRun + 1 /\ supExit = reaped.val)

\* C4: while only the pipes are drained, what loop() would return is the
\* outcome of the child reaped last; after loop() returned, stat is that
\* outcome; and the exit status at the end of the restart loop is that
\* outcome: the exit code, or the number of the signal
C4_ExitIsLastOutcome ==
    /\ (mPc \in LoopPcs /\ child = 0)
        => (reaped.pid = started + 1 /\ LoopResult(wstat) = reaped.val)
    /\ mPc \in AfterLoopPcs
        => (reaped.pid = started + 1 /\ stat = reaped.val)
    /\ mPc = "done"
        => (reaped.pid = started + 1 /\ supExit = reaped.val)

\* C4: the supervisor has exited after its second child, which SIGSEGV killed
C4_Witness ==
    /\ mPc = "done" /\ started = 2
    /\ reaped.kind = "signal" /\ reaped.val = SIGSEGV /\ supExit = SIGSEGV

\* C5: whenever a second or later child has been forked, the stop flag was
\* unset at that fork and restart > 0
C5_ForkOnlyWithoutStop == started >= 2 => (forkStop = 0 /\ restart > 0)

\* C6: when a second or later child is started, the time since the previous
\* start is the larger of the restart interval and the time the previous
\* run took
C6_GapIsMax ==
    ((mPc = "fork" /\ started >= 1) \/ (mPc \in LoopPcs /\ started >= 2))
        => laststart - prevStart = Max(restart, retAt - prevStart)

\* C6: the second start is due; the first run took one second of an
\* interval of two, and one more second was waited
C6_Witness ==
    /\ mPc = "fork" /\ started = 1 /\ restart = 2 /\ delivered = 0
    /\ retAt - prevStart = 1 /\ laststart - retAt = 1

(***************************************************************************)
(* Start mode run several times on one pid-file path: main (lines 402-471) *)
(* and PidFile, one action for each system call that reads or changes the  *)
(* file, the lock or the process table.                                    *)
(***************************************************************************)
\* The text fopen() and fgets() of the path get
TextAtPath(path, text) == IF path = 0 THEN NoFile ELSE text[path]

\* Invocation i has the lock: flock() gave it to the open file i made, and
\* a process still has that file open
LockHeld(i) == lkLocked[i] /\ lkHolders[i] # {}

\* flock(LOCK_EX | LOCK_NB) by invocation i fails when another open file of
\* the same inode has the lock
FlockFails(i) ==
    \E j \in Inv \ {i} : LockHeld(j) /\ lkFd[j] = lkFd[i]

\* What the path holds before the first invocation: no file, an empty file,
\* or the pid of a supervisor that is gone; that pid may meanwhile belong
\* to a foreign process, or be the one a new supervisor will get
StaleTexts == {NoFile, <<>>, FormatPid(ForeignPid), FormatPid(SupPid(1))}

LockInit ==
    /\ StopIdle
    /\ SupIdle
    /\ bootPc = [i \in Inv |-> "isRunning"]
    /\ supPc = [i \in Inv |-> "none"]
    /\ \E t \in StaleTexts :
        /\ lkPath = IF t = NoFile THEN 0 ELSE 1
        /\ lkText = [n \in Inodes |-> IF n = 1 /\ t # NoFile THEN t ELSE <<>>]
        /\ lkNextIno = IF t = NoFile THEN 1 ELSE 2
    /\ lkFd = [i \in Inv |-> 0]
    /\ lkHolders = [i \in Inv |-> {}]
    /\ lkLocked = [i \in Inv |-> FALSE]
    /\ \E f \in {"none", "foreign"} :
        lkProcs = [p \in LockPids |-> IF p = ForeignPid THEN f ELSE "none"]
    /\ lkExit = [i \in Inv |-> "none"]
    /\ lkSawLock = [i \in Inv |-> FALSE]
    /\ lkStop = "idle"

\* lines 402-406: exit(0) when the recorded pid is running
LkIsRunning(i) ==
    /\ bootPc[i] = "isRunning"
    /\ IF IsRunning(TextAtPath(lkPath, lkText), lkProcs)
       THEN /\ bootPc' = [bootPc EXCEPT ![i] = "done"]
            /\ lkExit' = [lkExit EXCEPT ![i] = "already running"]
            /\ lkSawLock' = [lkSawLock EXCEPT
                                ![i] = \E j \in Inv : LockHeld(j)]
       ELSE /\ bootPc' = [bootPc EXCEPT ![i] = "open"]
            /\ UNCHANGED <<lkExit, lkSawLock>>
    /\ UNCHANGED <<stopVars, supVars, lkStop, supPc, lkPath, lkText, lkNextIno,
                   lkFd, lkHolders, lkLocked, lkProcs>>

\* line 72: open(_pidfile, O_CREAT | O_WRONLY | O_NONBLOCK, 0644) opens the
\* file the path names, and makes an empty one when there is none
LkOpen(i) ==
    /\ bootPc[i] = "open"
    /\ LET ino == IF lkPath = 0 THEN lkNextIno ELSE lkPath IN
        /\ lkFd' = [lkFd EXCEPT ![i] = ino]
        /\ lkPath' = ino
        /\ lkNextIno' = IF lkPath = 0 THEN lkNextIno + 1 ELSE lkNextIno
        /\ lkText' = IF lkPath = 0 THEN [lkText EXCEPT ![ino] = <<>>]
                     ELSE lkText
    /\ lkHolders' = [lkHolders EXCEPT ![i] = {"boot"}]
    /\ bootPc' = [bootPc EXCEPT ![i] = "flock"]
    /\ UNCHANGED <<stopVars, supVars, lkStop, supPc, lkLocked, lkProcs, lkExit,
                   lkSawLock>>

\* line 408 with the result of writeOpen() ignored
StartGoesOnUnlocked(locked) == TRUE

\* line 408: if (!mypf.writeOpen()) return 1
StartGoesOn(locked) == locked

\* lines 79-87 and 408-411: flock(_fd, LOCK_EX | LOCK_NB); when it fails
\* writeOpen closes the descriptor and returns false, and main returns 1
LkFlock(i) ==
    /\ bootPc[i] = "flock"
    /\ LET locked == ~FlockFails(i) IN
        /\ lkLocked' = [lkLocked EXCEPT ![i] = locked]
        /\ lkHolders' = [lkHolders EXCEPT ![i] = IF locked THEN @ ELSE {}]
        /\ lkFd' = [lkFd EXCEPT ![i] = IF locked THEN @ ELSE 0]
        /\ IF StartGoesOn(locked)
           THEN /\ bootPc' = [bootPc EXCEPT ![i] = "fork"]
                /\ UNCHANGED lkExit
           ELSE /\ bootPc' = [bootPc EXCEPT ![i] = "done"]
                /\ lkExit' = [lkExit EXCEPT ![i] = "could not lock"]
    /\ UNCHANGED <<stopVars, supVars, lkStop, supPc, lkPath, lkText, lkNextIno,
                   lkProcs, lkSawLock>>

\* line 413: fork(); the supervisor shares the open file and so the lock
LkFork(i) ==
    /\ bootPc[i] = "fork"
    /\ supPc' = [supPc EXCEPT ![i] = "setsid"]
    /\ lkHolders' = [lkHolders EXCEPT
                        ![i] = IF lkFd[i] = 0 THEN {} ELSE {"boot", "sup"}]
    /\ lkProcs' = [lkProcs EXCEPT ![SupPid(i)] = "own"]
    /\ bootPc' = [bootPc EXCEPT ![i] = "return"]
    /\ UNCHANGED <<stopVars, supVars, lkStop, lkPath, lkText, lkNextIno, lkFd,
                   lkLocked, lkExit, lkSawLock>>

\* lines 470-471 and 50: the bootstrap process reports the pid and returns
\* 0; ~PidFile closes its copy of the descriptor
LkBootReturn(i) ==
    /\ bootPc[i] = "return"
    /\ lkHolders' = [lkHolders EXCEPT ![i] = @ \ {"boot"}]
    /\ lkExit' = [lkExit EXCEPT ![i] = "started"]
    /\ bootPc' = [bootPc EXCEPT ![i] = "done"]
    /\ UNCHANGED <<stopVars, supVars, lkStop, supPc, lkPath, lkText, lkNextIno,
                   lkFd, lkLocked, lkProcs, lkSawLock>>

\* lines 415-438: the supervisor detaches (/dev/null, setsid) and installs
\* the signal handler
LkSetsid(i) ==
    /\ supPc[i] = "setsid"
    /\ supPc' = [supPc EXCEPT ![i] = "ftruncate"]
    /\ UNCHANGED <<stopVars, supVars, lkStop, bootPc, lkPath, lkText,
                   lkNextIno, lkFd, lkHolders, lkLocked, lkProcs, lkExit,
                   lkSawLock>>

\* line 93: if (_fd < 0) abort()
WritePidAborts(fd) == fd = 0

\* lines 93-94: writePid aborts without a descriptor, and else empties the
\* file _fd is open on
LkFtruncate(i) ==
    /\ supPc[i] = "ftruncate"
    /\ IF WritePidAborts(lkFd[i])
       THEN /\ supPc' = [supPc EXCEPT ![i] = "aborted"]
            /\ lkProcs' = [lkProcs EXCEPT ![SupPid(i)] = "none"]
            /\ UNCHANGED lkText
       ELSE /\ supPc' = [supPc EXCEPT ![i] = "write"]
            /\ lkText' = [lkText EXCEPT ![lkFd[i]] = <<>>]
            /\ UNCHANGED lkProcs
    /\ UNCHANGED <<stopVars, supVars, lkStop, bootPc, lkPath, lkNextIno, lkFd,
                   lkHolders, lkLocked, lkExit, lkSawLock>>

\* lines 95-98: writePid writes getpid() and a newline
LkWrite(i) ==
    /\ supPc[i] = "write"
    /\ lkText' = [lkText EXCEPT ![lkFd[i]] = FormatPid(SupPid(i))]
    /\ supPc' = [supPc EXCEPT ![i] = "run"]
    /\ UNCHANGED <<stopVars, supVars, lkStop, bootPc, lkPath, lkNextIno, lkFd,
                   lkHolders, lkLocked, lkProcs, lkExit, lkSawLock>>

\* lines 443-454: the restart loop, from its first child to its end
LkRun(i) ==
    /\ supPc[i] = "run"
    /\ supPc' = [supPc EXCEPT ![i] = "isMine"]
    /\ UNCHANGED <<stopVars, supVars, lkStop, bootPc, lkPath, lkText,
                   lkNextIno, lkFd, lkHolders, lkLocked, lkProcs, lkExit,
                   lkSawLock>>

\* SIGKILL, or abort(), ends the supervisor in its restart loop: the kernel
\* closes its descriptor, and the file stays
LkSupKilled(i) ==
    /\ supPc[i] = "run"
    /\ supPc' = [supPc EXCEPT ![i] = "killed"]
    /\ lkHolders' = [lkHolders EXCEPT ![i] = @ \ {"sup"}]
    /\ lkProcs' = [lkProcs EXCEPT ![SupPid(i)] = "none"]
    /\ UNCHANGED <<stopVars, supVars, lkStop, bootPc, lkPath, lkText,
                   lkNextIno, lkFd, lkLocked, lkExit, lkSawLock>>

\* line 62, first operand: isMine() reads the path
LkCleanUpIsMine(i) ==
    /\ supPc[i] = "isMine"
    /\ supPc' = [supPc EXCEPT ![i] =
                    IF IsMine(TextAtPath(lkPath, lkText), SupPid(i))
                    THEN "remove" ELSE "isRunning"]
    /\ UNCHANGED <<stopVars, supVars, lkStop, bootPc, lkPath, lkText,
                   lkNextIno, lkFd, lkHolders, lkLocked, lkProcs, lkExit,
                   lkSawLock>>

\* line 62, second operand: !isRunning() reads the path again
LkCleanUpIsRunning(i) ==
    /\ supPc[i] = "isRunning"
    /\ supPc' = [supPc EXCEPT ![i] =
                    IF ~IsRunning(TextAtPath(lkPath, lkText), lkProcs)
                    THEN "remove" ELSE "close"]
    /\ UNCHANGED <<stopVars, supVars, lkStop, bootPc, lkPath, lkText,
                   lkNextIno, lkFd, lkHolders, lkLocked, lkProcs, lkExit,
                   lkSawLock>>

\* line 62: remove(_pidfile) unlinks whatever file the path names now
LkRemove(i) ==
    /\ supPc[i] = "remove"
    /\ lkPath' = 0
    /\ supPc' = [supPc EXCEPT ![i] = "close"]
    /\ UNCHANGED <<stopVars, supVars, lkStop, bootPc, lkText, lkNextIno, lkFd,
                   lkHolders, lkLocked, lkProcs, lkExit, lkSawLock>>

\* lines 63-64: close(_fd)
LkClose(i) ==
    /\ supPc[i] = "close"
    /\ lkHolders' = [lkHolders EXCEPT ![i] = @ \ {"sup"}]
    /\ supPc' = [supPc EXCEPT ![i] = "exit"]
    /\ UNCHANGED <<stopVars, supVars, lkStop, bootPc, lkPath, lkText,
                   lkNextIno, lkFd, lkLocked, lkProcs, lkExit, lkSawLock>>

\* line 463: exit(stat)
LkExit(i) ==
    /\ supPc[i] = "exit"
    /\ lkProcs' = [lkProcs EXCEPT ![SupPid(i)] = "none"]
    /\ supPc' = [supPc EXCEPT ![i] = "done"]
    /\ UNCHANGED <<stopVars, supVars, lkStop, bootPc, lkPath, lkText,
                   lkNextIno, lkFd, lkHolders, lkLocked, lkExit, lkSawLock>>

LockNext ==
    \E i \in Inv :
        \/ LkIsRunning(i)
        \/ LkOpen(i)
        \/ LkFlock(i)
        \/ LkFork(i)
        \/ LkBootReturn(i)
        \/ LkSetsid(i)
        \/ LkFtruncate(i)
        \/ LkWrite(i)
        \/ LkRun(i)
        \/ LkSupKilled(i)
        \/ LkCleanUpIsMine(i)
        \/ LkCleanUpIsRunning(i)
        \/ LkRemove(i)
        \/ LkClose(i)
        \/ LkExit(i)

SpecLock == LockInit /\ [][LockNext]_vars

(***************************************************************************)
(* Start mode run several times, and stop mode run once, on one path.      *)
(* Stop mode is here what it does to the file: the test at line 354, the   *)
(* time it signals and polls (lines 355-390), and cleanUp (line 395).      *)
(***************************************************************************)
\* getpid() of the stop-mode process; no supervisor has it
LkStopPid == ForeignPid + 1

LockStopInit ==
    /\ StopIdle
    /\ SupIdle
    /\ bootPc = [i \in Inv |-> "isRunning"]
    /\ supPc = [i \in Inv |-> "none"]
    /\ \E t \in StaleTexts :
        /\ lkPath = IF t = NoFile THEN 0 ELSE 1
        /\ lkText = [n \in Inodes |-> IF n = 1 /\ t # NoFile THEN t ELSE <<>>]
        /\ lkNextIno = IF t = NoFile THEN 1 ELSE 2
    /\ lkFd = [i \in Inv |-> 0]
    /\ lkHolders = [i \in Inv |-> {}]
    /\ lkLocked = [i \in Inv |-> FALSE]
    /\ \E f \in {"none", "foreign"} :
        lkProcs = [p \in LockPids |-> IF p = ForeignPid THEN f ELSE "none"]
    /\ lkExit = [i \in Inv |-> "none"]
    /\ lkSawLock = [i \in Inv |-> FALSE]
    /\ lkStop = "isRunning"

\* line 354: if (mypf.isRunning())
LkStopIsRunning ==
    /\ lkStop = "isRunning"
    /\ lkStop' = IF IsRunning(TextAtPath(lkPath, lkText), lkProcs)
                 THEN "poll" ELSE "isMine"
    /\ UNCHANGED <<stopVars, supVars, bootPc, supPc, lkPath, lkText, lkNextIno,
                   lkFd, lkHolders, lkLocked, lkProcs, lkExit, lkSawLock>>

\* lines 355-390: the stop command or the signals, and the polling, which
\* ends when the group is gone or after 1800 polls; exit(1) at line 368
\* when the first killpg fails
LkStopPollEnds ==
    /\ lkStop = "poll"
    /\ lkStop' \in {"isMine", "done"}
    /\ UNCHANGED <<stopVars, supVars, bootPc, supPc, lkPath, lkText, lkNextIno,
                   lkFd, lkHolders, lkLocked, lkProcs, lkExit, lkSawLock>>

\* lines 395 and 62, first operand: isMine() reads the path
LkStopCleanUpIsMine ==
    /\ lkStop = "isMine"
    /\ lkStop' = IF IsMine(TextAtPath(lkPath, lkText), LkStopPid)
                 THEN "remove" ELSE "cuIsRunning"
    /\ UNCHANGED <<stopVars, supVars, bootPc, supPc, lkPath, lkText, lkNextIno,
                   lkFd, lkHolders, lkLocked, lkProcs, lkExit, lkSawLock>>

\* line 62, second operand: !isRunning() reads the path again; when the
\* pid is running, cleanUp has nothing to close and main exits (line 396)
LkStopCleanUpIsRunning ==
    /\ lkStop = "cuIsRunning"
    /\ lkStop' = IF ~IsRunning(TextAtPath(lkPath, lkText), lkProcs)
                 THEN "remove" ELSE "done"
    /\ UNCHANGED <<stopVars, supVars, bootPc, supPc, lkPath, lkText, lkNextIno,
                   lkFd, lkHolders, lkLocked, lkProcs, lkExit, lkSawLock>>

\* lines 62 and 396: remove(_pidfile), then exit(0)
LkStopRemove ==
    /\ lkStop = "remove"
    /\ lkPath' = 0
    /\ lkStop' = "done"
    /\ UNCHANGED <<stopVars, supVars, bootPc, supPc, lkText, lkNextIno, lkFd,
                   lkHolders, lkLocked, lkProcs, lkExit, lkSawLock>>

LockStopNext ==
    \/ LockNext
    \/ LkStopIsRunning
    \/ LkStopPollEnds
    \/ LkStopCleanUpIsMine
    \/ LkStopCleanUpIsRunning
    \/ LkStopRemove

SpecLockStop == LockStopInit /\ [][LockStopNext]_vars

(***************************************************************************)
(* Properties of start mode run several times                              *)
(***************************************************************************)
\* Invocation i got the lock from writeOpen, still has it, and has not yet
\* come to cleanUp: it is about to supervise, or supervises
Supervising(i) ==
    /\ LockHeld(i)
    /\ \/ bootPc[i] = "fork"
       \/ supPc[i] \in {"setsid", "ftruncate", "write", "run"}

\* C1: at most one invocation at a time has the lock writeOpen gave it and
\* supervises under it
C1_AtMostOneLockHolder == Cardinality({i \in Inv : Supervising(i)}) <= 1

\* C2: a start is refused as "already running" only when some invocation
\* holds a lock
C2_RefusedOnlyByLock ==
    \A i \in Inv : lkExit[i] = "already running" => lkSawLock[i]

(***************************************************************************)
(* Further properties of stop mode                                         *)
(***************************************************************************)
\* C11: a stop-mode run that has ended has called cleanUp()
C11_AlwaysCleansUp == stPc = "done" => stCleaned

(***************************************************************************)
(* Further properties of start mode run several times                      *)
(***************************************************************************)
\* C12: when cleanUp of a supervisor comes to remove(_pidfile), the file the
\* path names records the caller's own pid or a pid that is not running;
\* and after cleanUp the supervisor has its descriptor closed
C12_CleanUpRemovesOwnOrDead ==
    \A i \in Inv :
        /\ supPc[i] = "remove"
            => CleanUpRemoves(TextAtPath(lkPath, lkText), lkProcs, SupPid(i))
        /\ supPc[i] \in {"exit", "done"} => "sup" \notin lkHolders[i]

(***************************************************************************)
(* Further properties of the supervisor                                    *)
(***************************************************************************)
\* C13: every step that clears the pending flag is taken when the last
\* kill() sent the child the signal the handler recorded last
C13_ClearedOnlyWhenForwarded ==
    [][(unhandledsig = 1 /\ unhandledsig' = 0)
        => (forwarded.sig = lastsig /\ forwarded.to = child)]_vars

\* C14: when loop() returns, and until the next fork, the child of this run
\* has been reaped with an exit or signal status (not a stop status) and
\* both pipes have reported end of stream
C14_ReturnsOnlyWhenAllDone ==
    mPc \in {"return"} \cup AfterLoopPcs
        => /\ child = 0 /\ outeof /\ erreof
           /\ reaped.pid = started + 1
           /\ reaped.kind \in {"exit", "signal"}
           /\ wstat = EndStatus(reaped)
           /\ ~WIFSTOPPED(wstat)

\* C14: both pipes are at end of stream and waitpid has reported the child
\* stopped; the child is unreaped and loop() is still turning
C14_Witness ==
    /\ mPc = "select" /\ outeof /\ erreof
    /\ child # 0 /\ WIFSTOPPED(wstat)

\* C15: in every select() round, a pipe is in the set exactly when its eof
\* flag is unset; every pipe reported ready is read, both when both are; a
\* flag once set stays set; and a pipe is closed once when its flag is set
\* and not before
C15_StreamsIndependent ==
    [][(mPc = "select" /\ mPc' = "waitpid")
        => /\ round'.sel = {s \in Streams :
                              IF s = "out" THEN ~outeof ELSE ~erreof}
           /\ round'.ready \subseteq round'.sel
           /\ round'.read = round'.ready
           /\ outeof => outeof'
           /\ erreof => erreof'
           /\ closed'["out"] = (IF outeof' THEN 1 ELSE 0)
           /\ closed'["err"] = (IF erreof' THEN 1 ELSE 0)]_vars

\* C15: stdout is at end of stream and closed; in the round just done only
\* stderr was in the set, and it was read and is still open
C15_Witness ==
    /\ mPc = "waitpid" /\ outeof /\ closed["out"] = 1
    /\ round = [sel |-> {"err"}, ready |-> {"err"}, read |-> {"err"}]
    /\ ~erreof

\* C16: a supervisor comes to writePid with the lock and its descriptor,
\* when its bootstrap process is past fork(); and every step that puts a
\* pid in a file is the write of such a supervisor, which writes its own
\* pid into the file it has locked and only then starts its first child
C16_PidWrittenUnderLock ==
    [][/\ \A i \in Inv :
            supPc[i] \in {"ftruncate", "write"}
                => /\ lkLocked[i] /\ "sup" \in lkHolders[i] /\ lkFd[i] # 0
                   /\ bootPc[i] \in {"return", "done"}
       /\ \A n \in Inodes :
            (lkText'[n] # lkText[n] /\ lkText'[n] # <<>>)
                => \E i \in Inv :
                    /\ supPc[i] = "write" /\ supPc'[i] = "run"
                    /\ lkFd[i] = n /\ lkLocked[i]
                    /\ lkText'[n] = FormatPid(SupPid(i))]_vars

\* C16: a supervisor has written its pid under the lock and runs, and
\* another invocation could not lock and has ended
C16_Witness ==
    \E i \in Inv, j \in Inv :
        /\ supPc[i] = "run" /\ LockHeld(i)
        /\ lkText[lkFd[i]] = FormatPid(SupPid(i))
        /\ lkExit[j] = "could not lock" /\ supPc[j] = "none"

\* C17 as claimed: with restart > 0 and no signal delivered, the supervisor
\* never finishes
C17_NeverFinishes ==
    (restart > 0 /\ delivered = 0)
        => mPc \notin {"done", "failed", "aborted"}

\* C17: the supervisor leaves the restart loop only with restart = 0 or
\* with the stop flag set; with restart > 0, every return of loop() leads
\* to the fork of the next child unless a signal comes; a stop flag set
\* during the restart wait leads to the exit of the supervisor, and the
\* test at line 451 that finds it set is not followed by another sleep
C17_RestartsUnlessStopped ==
    /\ [](mPc \in {"cleanup", "exit", "done"}
            => (restart = 0 \/ gotstopsig = 1))
    /\ ((mPc = "return" /\ restart > 0)
            ~> (mPc = "fork" \/ gotstopsig = 1))
    /\ ((mPc \in {"wait", "sleep"} /\ gotstopsig = 1) ~> mPc = "done")
    /\ [][(mPc = "wait" /\ gotstopsig = 1) => mPc' # "sleep"]_vars

\* C17: no signal was delivered, the first child was killed by a signal,
\* and the second child has been started
C17_Witness ==
    /\ restart > 0 /\ delivered = 0
    /\ started = 2 /\ mPc = "loopcond" /\ child # 0
    /\ reaped.pid = 2 /\ reaped.kind = "signal"

\* C18: no step clears the stop flag or the recorded signal once the
\* handler has set them, and the pending flag is cleared by line 292 only
C18_StopFlagMonotone ==
    [][/\ gotstopsig = 1 => gotstopsig' = 1
       /\ lastsig # 0 => lastsig' # 0
       /\ (unhandledsig = 1 /\ unhandledsig' = 0)
            => (mPc = "clear" /\ mPc' = "loopcond")]_vars

\* C18: the signal was forwarded and the pending flag cleared, the child
\* was reaped, loop() returned and the supervisor has exited; the stop flag
\* is still set
C18_Witness ==
    /\ mPc = "done" /\ gotstopsig = 1 /\ unhandledsig = 0
    /\ forwarded.sig # 0 /\ reaped.pid = forwarded.to /\ restart > 0

\* C19: no step unlinks the path while another process has the lock on the
\* file the path names; and at most one invocation at a time supervises
C19_NoRemoveUnderLock ==
    /\ [][(lkPath # 0 /\ lkPath' = 0)
            => \A j \in Inv :
                (LockHeld(j) /\ lkFd[j] = lkPath)
                    => (supPc[j] = "remove" /\ supPc'[j] = "close")]_vars
    /\ [](\A i \in Inv, j \in Inv :
            (Supervising(i) /\ Supervising(j)) => i = j)

\* C20: kill() is called only with the pid of the child forked last and not
\* yet reaped, never with 0; while there is no child a delivered signal
\* stays pending
C20_KillOnlyLiveChild ==
    /\ [][(mPc = "kill" /\ mPc' = "clear")
            => /\ child # 0
               /\ child = started + 1
               /\ forwarded'.to = child
               /\ forwarded'.to # reaped.pid]_vars
    /\ [][(child = 0 /\ unhandledsig = 1) => unhandledsig' = 1]_vars
    /\ [](mPc \in {"kill", "clear"} => child # 0)

\* the test at line 285 is reached with a signal pending after the child was
\* reaped, while a pipe is still open; nothing has been sent
C20_Witness ==
    /\ mPc = "sigcheck" /\ child = 0 /\ unhandledsig = 1
    /\ reaped.pid = started + 1
    /\ ~(outeof /\ erreof)
    /\ sigRun = 0 /\ forwarded.sig = 0

====
